---- MODULE Spec2Model ----
(***************************************************************************)
(* Client metadata cache of shortbot (crate clientlib): the in-memory      *)
(* cache (Cache), the handler used by the bot endpoints (ClientHandler)    *)
(* and the maintenance task that reconciles the cache with the BotClient   *)
(* table (CacheHandler).                                                   *)
(*                                                                         *)
(* Conventions.  Option<T> is a set: None is {} and Some(x) is {x}.        *)
(* Strings that the code splits or parses (channel messages, the           *)
(* subscriptions column) are sequences of one-character strings.           *)
(* Result<T, E> is <<"Ok", v>> or <<"Err", e>>.  Time stamps are the       *)
(* single token "ts" (no claim depends on the clock value).                *)
(*                                                                         *)
(* Every ClientHandler call is one action (calls of the handler are        *)
(* taken one after the other); the CacheHandler task advances one          *)
(* message, one flushed id, one saved id or one loaded row per step, so    *)
(* handler calls interleave with a running flush, Save or Load.            *)
(***************************************************************************)
EXTENDS Integers, Sequences, FiniteSets, TLC

\* ------------------------------------------------------------------ bounds
MaxId == 2
MaxOps == 3
ChanCap == 1
MaxThreshold == 1

Ids == 1..MaxId

\* ------------------------------------------------------- program constants
CHARS_PER_TICKER == 4

\* ---------------------------------------------------------------- strings
Digits == <<"0", "1", "2", "3", "4", "5", "6", "7", "8", "9">>

IsDigit(c) == \E i \in 1..10 : Digits[i] = c

DigitVal(c) == (CHOOSE i \in 1..10 : Digits[i] = c) - 1

RECURSIVE Dec(_)
\* format!("{}", n) of an unsigned integer
Dec(n) == IF n < 10 THEN <<Digits[n + 1]>>
          ELSE Dec(n \div 10) \o <<Digits[(n % 10) + 1]>>

RECURSIVE DecVal(_)
DecVal(s) == IF s = <<>> THEN 0
             ELSE 10 * DecVal(SubSeq(s, 1, Len(s) - 1)) + DigitVal(s[Len(s)])

\* str::parse::<u64>: an optional '+', then at least one digit; a text of up
\* to 19 digits is below 2^64 (longer payloads do not occur in this model)
ParseU64(s) ==
    LET body == IF s # <<>> /\ s[1] = "+" THEN Tail(s) ELSE s
    IN  IF body # <<>> /\ (\A i \in 1..Len(body) : IsDigit(body[i]))
           /\ Len(body) <= 19
        THEN <<"Ok", DecVal(body)>>
        ELSE <<"Err", "ParseIntError">>

RECURSIVE Split(_, _)
\* str::split(sep) for a one-character separator: n separators give n+1 tokens
Split(s, sep) ==
    IF \E i \in 1..Len(s) : s[i] = sep
    THEN LET i == CHOOSE k \in 1..Len(s) :
                    s[k] = sep /\ \A j \in 1..(k - 1) : s[j] # sep
         IN  <<SubSeq(s, 1, i - 1)>> \o Split(SubSeq(s, i + 1, Len(s)), sep)
    ELSE <<s>>

RECURSIVE Join(_, _)
\* [String]::join(sep)
Join(toks, sep) ==
    IF toks = <<>> THEN <<>>
    ELSE IF Len(toks) = 1 THEN toks[1]
    ELSE toks[1] \o <<sep>> \o Join(Tail(toks), sep)

\* all the orders in which a HashSet may yield its elements
Orders(S) ==
    {f \in [1..Cardinality(S) -> S] : \A i, j \in 1..Cardinality(S) : i # j => f[i] # f[j]}

Range(f) == {f[i] : i \in DOMAIN f}

\* ------------------------------------------------------------ Option<T>
None == {}

Some(x) == {x}

Unwrap(o) == CHOOSE x \in o : TRUE

\* ------------------------------------------------------------- BotAccess
BotAccess == {"Free", "Limited", "Unlimited", "Admin"}

\* impl Display for BotAccess
to_string(a) ==
    CASE a = "Free" -> "free"
      [] a = "Limited" -> "limited"
      [] a = "Unlimited" -> "unlimited"
      [] a = "Admin" -> "admin"

\* impl FromStr for BotAccess
from_str(s) ==
    CASE s = "free" -> <<"Ok", "Free">>
      [] s = "limited" -> <<"Ok", "Limited">>
      [] s = "unlimited" -> <<"Ok", "Unlimited">>
      [] s = "admin" -> <<"Ok", "Admin">>
      [] OTHER -> <<"Err", "Invalid BotAccess type">>

\* --------------------------------------------------------- Subscriptions
\* the tickers the bot endpoints subscribe to in this model
Tickers == {<<"A">>, <<"B", "B">>}

\* the Subscriptions values handed to the handler (built by the endpoints):
\* the empty one and one per ticker
SubArgs == {{}} \cup {{t} : t \in Tickers}

\* += that assigns the right-hand side
add_assign_rhs(self, rhs) == rhs

\* impl AddAssign for Subscriptions
add_assign(self, rhs) == self \cup rhs

\* sub_assign that inserts the tickers it does not find
sub_assign_toggle(self, other) == (self \ other) \cup (other \ self)

\* impl SubAssign for Subscriptions
sub_assign(self, other) == self \ other

\* Subscriptions::is_empty
is_empty(self) == self = {}

\* impl Display for Subscriptions: the tickers joined by ';' in HashSet order
SubToStrings(self) == {Join(o, ";") : o \in Orders(self)}

\* a character outside ASCII (U+00D1), which UTF-8 encodes in two bytes
WideChar == "N~"

\* char::len_utf8 of the characters of this model
len_utf8(c) == IF c = WideChar THEN 2 ELSE 1

RECURSIVE len(_)
\* str::len: the length of the text in bytes
len(s) == IF s = <<>> THEN 0 ELSE len_utf8(Head(s)) + len(Tail(s))

\* impl TryFrom<&str> for Subscriptions
SubTryFrom(value) ==
    LET toks == Split(value, ";")
    IN  IF \E i \in 1..Len(toks) : len(toks[i]) > CHARS_PER_TICKER
        THEN <<"Err", "WrongSubscriptionString">>
        ELSE <<"Ok", Range(toks)>>

\* impl TryFrom<&[&str]> for Subscriptions
SubTryFromSlice(value) ==
    IF \E i \in 1..Len(value) : len(value[i]) > CHARS_PER_TICKER
    THEN <<"Err", "WrongSubscriptionString">>
    ELSE <<"Ok", Range(value)>>

\* ------------------------------------------------------------ ClientMeta
\* ClientMeta::default()
DefaultMeta ==
    [registered |-> FALSE, access_level |-> "Free", subscriptions |-> None,
     last_access |-> None, last_update |-> None, created_at |-> None]

\* the tickers of an Option<Subscriptions> (None counts as the empty set)
TickersOf(subs) == UNION subs

\* -------------------------------------------------------------- messages
MsgPing == <<"p", "i", "n", "g">>
MsgStop == <<"s", "t", "o", "p">>
MsgSave == <<"s", "a", "v", "e">>
MsgLoad == <<"l", "o", "a", "d">>
VerbUpdate == <<"u", "p", "d", "a", "t", "e">>

\* format!("update:{}", client_id.0)
MsgUpdate(u) == VerbUpdate \o <<":">> \o Dec(u)

\* the commands the rest of the bot sends on its clone of the sender
ExternalMsgs == {MsgPing, MsgStop, MsgSave, MsgLoad}

\* impl From<String> for CacheHandlerCmd
CmdFrom(value) ==
    LET raw_cmd == Split(value, ":")
        cmd == raw_cmd[1]
        payload == IF Len(raw_cmd) > 1 THEN Some(raw_cmd[2]) ELSE None
    IN  CASE cmd = MsgPing -> [cmd |-> "Ping", payload |-> <<>>]
          [] cmd = VerbUpdate ->
                [cmd |-> "Update",
                 payload |-> IF payload = None THEN <<>> ELSE Unwrap(payload)]
          [] OTHER -> [cmd |-> "Stop", payload |-> <<>>]

\* ----------------------------------------------------------------- state
VARIABLES
    data,           \* Cache::data, the ShardMap: id -> Option<ClientMeta>
    clients,        \* Cache::clients, the list of known ids
    locked,         \* Cache::clients mutex held by save_cache
    db,             \* the BotClient table: id -> Option<row>
    chan,           \* the mpsc channel between the two handlers
    update_queue,   \* CacheHandler::update_queue
    queue_service,  \* CacheHandler::queue_service
    pc,             \* where the CacheHandler task is
    work,           \* what the running flush, Save or Load still has to do
    cont,           \* what the task does when the running operation ends
    result,         \* the Result the task or the direct call ended with
    nops,           \* number of calls made so far
    ret,            \* the last call (or turn of Load) and what it returned
    inflight        \* the handler calls that run step by step, per caller

vars == <<data, clients, locked, db, chan, update_queue, queue_service,
          pc, work, cont, result, nops, ret, inflight>>

cacheVars == <<data, clients, locked>>
\* the variables of the task, and the calls in flight, which a call made in
\* one step never has
taskVars == <<update_queue, queue_service, pc, work, cont, result, inflight>>

\* the two callers of the handler that run their calls step by step
Callers == {1, 2}

\* a caller that has no call in flight
NoFlight == [op |-> "none", id |-> 0, arg |-> {}, at |-> "idle",
             res |-> <<"Ok", "unit">>, dbw |-> "none"]

NoCall == [op |-> "build", id |-> 0, arg |-> {}, res |-> <<"Ok", "unit">>,
           notify |-> "none", dbw |-> "none"]

\* the record of a call: the operation, the id and the argument it was
\* called with, the value it returned, what became of its notification
\* and which statement it ran on the store
Call(op, u, arg, res, notify, dbw) ==
    [op |-> op, id |-> u, arg |-> arg, res |-> res, notify |-> notify, dbw |-> dbw]

Init ==
    /\ data = [u \in Ids |-> None]
    /\ clients = <<>>
    /\ locked = FALSE
    /\ db = [u \in Ids |-> None]
    /\ chan = <<>>
    /\ update_queue = <<>>
    /\ queue_service \in 0..MaxThreshold
    /\ pc = "idle"
    /\ work = <<>>
    /\ cont = "none"
    /\ result = <<"Ok", "unit">>
    /\ nops = 0
    /\ ret = NoCall
    /\ inflight = [c \in Callers |-> NoFlight]

\* ------------------------------------------------------------ the store
\* db_register_client that binds auto_register itself to the registered column
db_register_client_flag(table, u, auto_register) ==
    [table EXCEPT ![u] = Some([registered |-> auto_register,
                               access |-> to_string("Free"),
                               subscriptions |-> None, created_at |-> Some("ts"),
                               last_access |-> None])]

\* ClientHandler::db_register_client:
\* INSERT INTO BotClient VALUES (id, !auto_register, 'free', NULL, CURRENT_TIMESTAMP(), NULL)
db_register_client(table, u, auto_register) ==
    [table EXCEPT ![u] = Some([registered |-> ~auto_register,
                               access |-> to_string("Free"),
                               subscriptions |-> None, created_at |-> Some("ts"),
                               last_access |-> None])]

\* the store takes the INSERT: it answers, and the id (the key of the
\* table) has no row yet
InsertAccepted(table, u, dbOk) == dbOk /\ table[u] = None

\* db_mark_as_registered that leaves the row as it is
db_mark_as_registered_skip(table, u) == table

\* ClientHandler::db_mark_as_registered:
\* UPDATE BotClient SET registered = true WHERE id = ?
db_mark_as_registered(table, u) ==
    IF table[u] = None THEN table
    ELSE [table EXCEPT ![u] = Some([Unwrap(table[u]) EXCEPT !.registered = TRUE])]

\* notify_cache_handler that queues its message whatever the channel holds
notify_cache_handler_always(ch, u) == Append(ch, MsgUpdate(u))

\* ClientHandler::notify_cache_handler: send_timeout on the bounded channel;
\* the message is queued when there is room and dropped otherwise
notify_cache_handler(ch, u) ==
    IF Len(ch) < ChanCap THEN Append(ch, MsgUpdate(u)) ELSE ch

\* what became of the message of notify_cache_handler
Notified(ch) == IF Len(ch) < ChanCap THEN "sent" ELSE "dropped"

\* ------------------------------------------------------- ClientHandler
\* access_level that registers an unknown id in the cache, as is_registered does
access_level_lazy(u) ==
    /\ nops < MaxOps
    /\ nops' = nops + 1
    /\ ret' = Call("access_level", u, {},
                   IF data[u] = None THEN <<"Ok", "Free">>
                   ELSE <<"Ok", Unwrap(data[u]).access_level>>,
                   "none", "none")
    /\ data' = IF data[u] = None THEN [data EXCEPT ![u] = Some(DefaultMeta)] ELSE data
    /\ UNCHANGED <<clients, locked, db, chan, taskVars>>

\* ClientHandler::access_level
access_level(u) ==
    /\ nops < MaxOps
    /\ nops' = nops + 1
    /\ ret' = Call("access_level", u, {},
                   IF data[u] = None THEN <<"Ok", "Free">>
                   ELSE <<"Ok", Unwrap(data[u]).access_level>>,
                   "none", "none")
    /\ UNCHANGED <<cacheVars, db, chan, taskVars>>

\* is_registered that appends the id to the key list on every call
is_registered_cached_push(u) ==
    /\ ~locked
    /\ clients' = Append(clients, u)
    /\ ret' = Call("is_registered", u, {}, <<"Ok", Unwrap(data[u]).registered>>,
                   "none", "none")
    /\ UNCHANGED <<data, locked, db, chan, taskVars>>

\* ClientHandler::is_registered, the arm of a cached id
is_registered_cached(u) ==
    /\ ret' = Call("is_registered", u, {}, <<"Ok", Unwrap(data[u]).registered>>,
                   "none", "none")
    /\ UNCHANGED <<cacheVars, db, chan, taskVars>>

\* ClientHandler::is_registered, the arm of a new id: soft registration
is_registered_new(u, dbOk) ==
    IF ~InsertAccepted(db, u, dbOk)
    THEN /\ ret' = Call("is_registered", u, {}, <<"Err", "UnknownDbError">>,
                        "none", "insert_failed")
         /\ UNCHANGED <<cacheVars, db, chan, taskVars>>
    ELSE /\ ~locked
         /\ db' = db_register_client(db, u, TRUE)
         /\ data' = [data EXCEPT ![u] = Some(DefaultMeta)]
         /\ chan' = notify_cache_handler(chan, u)
         /\ clients' = Append(clients, u)
         /\ ret' = Call("is_registered", u, {}, <<"Ok", FALSE>>,
                        Notified(chan), "insert")
         /\ UNCHANGED <<locked, taskVars>>

\* ClientHandler::is_registered; dbOk tells whether the store answers
is_registered(u, dbOk) ==
    /\ nops < MaxOps
    /\ nops' = nops + 1
    /\ IF data[u] # None THEN is_registered_cached(u) ELSE is_registered_new(u, dbOk)

\* ClientHandler::register_client, a soft-registered id: the flag is set in
\* the cache, then in the store
register_client_promote(u, dbOk) ==
    /\ data' = [data EXCEPT ![u] =
           Some([Unwrap(data[u]) EXCEPT !.registered = TRUE,
                                        !.last_access = Some("ts"),
                                        !.last_update = Some("ts")])]
    /\ IF dbOk
       THEN /\ ~locked
            /\ db' = db_mark_as_registered(db, u)
            /\ clients' = Append(clients, u)
            /\ ret' = Call("register_client", u, {}, <<"Ok", "unit">>,
                           "none", "update")
       ELSE /\ ret' = Call("register_client", u, {}, <<"Err", "UnknownDbError">>,
                           "none", "update_failed")
            /\ UNCHANGED <<db, clients>>
    /\ UNCHANGED <<locked, chan, taskVars>>

\* ClientHandler::register_client, an id that is not in the cache
register_client_new(u, dbOk) ==
    IF ~InsertAccepted(db, u, dbOk)
    THEN /\ ret' = Call("register_client", u, {}, <<"Err", "UnknownDbError">>,
                        "none", "insert_failed")
         /\ UNCHANGED <<cacheVars, db, chan, taskVars>>
    ELSE /\ ~locked
         /\ db' = db_register_client(db, u, FALSE)
         /\ data' = [data EXCEPT ![u] =
                Some([DefaultMeta EXCEPT !.registered = TRUE,
                                         !.last_access = Some("ts"),
                                         !.last_update = Some("ts")])]
         /\ clients' = Append(clients, u)
         /\ ret' = Call("register_client", u, {}, <<"Ok", "unit">>, "none", "insert")
         /\ UNCHANGED <<locked, chan, taskVars>>

\* the arm of a registered id running the INSERT again
register_client_reinsert(u) == register_client_new(u, TRUE)

\* ClientHandler::register_client, an id that is already hard-registered:
\* only the key list grows
register_client_again(u) ==
    /\ ~locked
    /\ clients' = Append(clients, u)
    /\ ret' = Call("register_client", u, {}, <<"Ok", "unit">>, "none", "none")
    /\ UNCHANGED <<data, locked, db, chan, taskVars>>

\* ClientHandler::register_client
register_client(u, dbOk) ==
    /\ nops < MaxOps
    /\ nops' = nops + 1
    /\ IF data[u] = None THEN register_client_new(u, dbOk)
       ELSE IF ~Unwrap(data[u]).registered THEN register_client_promote(u, dbOk)
       ELSE register_client_again(u)

\* the error arm that still notifies the cache handler
ClientNotRegistered_notify(op, u, arg) ==
    /\ ret' = Call(op, u, arg, <<"Err", "ClientNotRegistered">>, Notified(chan), "none")
    /\ chan' = notify_cache_handler(chan, u)
    /\ UNCHANGED <<cacheVars, db, taskVars>>

\* the error arm of the operations that need a cached id
ClientNotRegistered(op, u, arg) ==
    /\ ret' = Call(op, u, arg, <<"Err", "ClientNotRegistered">>, "none", "none")
    /\ UNCHANGED <<cacheVars, db, chan, taskVars>>

\* subscriptions that stamps last_access in the row of the client
subscriptions_touch(u) ==
    /\ nops < MaxOps
    /\ nops' = nops + 1
    /\ IF data[u] = None
       THEN ClientNotRegistered("subscriptions", u, {})
       ELSE /\ ret' = Call("subscriptions", u, {},
                           <<"Ok", Unwrap(data[u]).subscriptions>>, "none", "update")
            /\ db' = IF db[u] = None THEN db
                     ELSE [db EXCEPT ![u] =
                             Some([Unwrap(db[u]) EXCEPT !.last_access = Some("ts")])]
            /\ UNCHANGED <<cacheVars, chan, taskVars>>

\* ClientHandler::subscriptions
subscriptions(u) ==
    /\ nops < MaxOps
    /\ nops' = nops + 1
    /\ IF data[u] = None
       THEN ClientNotRegistered("subscriptions", u, {})
       ELSE /\ ret' = Call("subscriptions", u, {},
                           <<"Ok", Unwrap(data[u]).subscriptions>>, "none", "none")
            /\ UNCHANGED <<cacheVars, db, chan, taskVars>>

\* add_subscriptions that replaces the set of the record
AddedSubscriptions_replace(current, subs) == Some(subs)

\* the Option<Subscriptions> of a record after add_subscriptions
AddedSubscriptions(current, subs) ==
    IF current = None THEN Some(subs)
    ELSE Some(add_assign(Unwrap(current), subs))

\* ClientHandler::add_subscriptions
add_subscriptions(u, subs) ==
    /\ nops < MaxOps
    /\ nops' = nops + 1
    /\ IF data[u] = None
       THEN ClientNotRegistered("add_subscriptions", u, subs)
       ELSE LET metadata == Unwrap(data[u])
            IN  /\ data' = [data EXCEPT ![u] =
                       Some([metadata EXCEPT !.subscriptions =
                                AddedSubscriptions(metadata.subscriptions, subs)])]
                /\ IF metadata.subscriptions = None
                   THEN /\ chan' = notify_cache_handler(chan, u)
                        /\ ret' = Call("add_subscriptions", u, subs, <<"Ok", "unit">>,
                                       Notified(chan), "none")
                   ELSE /\ chan' = chan
                        /\ ret' = Call("add_subscriptions", u, subs, <<"Ok", "unit">>,
                                       "none", "none")
                /\ UNCHANGED <<clients, locked, db, taskVars>>

\* remove_subscriptions that keeps an emptied set in the record
RemovedSubscriptions_keep(current, subs) ==
    IF current = None THEN None
    ELSE Some(sub_assign(Unwrap(current), subs))

\* the Option<Subscriptions> of a record after remove_subscriptions
RemovedSubscriptions(current, subs) ==
    IF current = None THEN None
    ELSE LET left == sub_assign(Unwrap(current), subs)
         IN  IF is_empty(left) THEN None ELSE Some(left)

\* ClientHandler::remove_subscriptions
remove_subscriptions(u, subs) ==
    /\ nops < MaxOps
    /\ nops' = nops + 1
    /\ IF data[u] = None
       THEN ClientNotRegistered("remove_subscriptions", u, subs)
       ELSE LET metadata == Unwrap(data[u])
            IN  /\ data' = [data EXCEPT ![u] =
                       Some([metadata EXCEPT !.subscriptions =
                                RemovedSubscriptions(metadata.subscriptions, subs)])]
                /\ IF metadata.subscriptions = None
                   THEN /\ chan' = chan
                        /\ ret' = Call("remove_subscriptions", u, subs, <<"Ok", "unit">>,
                                       "none", "none")
                   ELSE /\ chan' = notify_cache_handler(chan, u)
                        /\ ret' = Call("remove_subscriptions", u, subs, <<"Ok", "unit">>,
                                       Notified(chan), "none")
                /\ UNCHANGED <<clients, locked, db, taskVars>>

\* modify_access_level that keeps the new tier only when its notification
\* was queued
modify_access_level_if_sent(u, access) ==
    /\ nops < MaxOps
    /\ nops' = nops + 1
    /\ IF data[u] = None
       THEN ClientNotRegistered("modify_access_level", u, access)
       ELSE /\ data' = IF Len(chan) < ChanCap
                       THEN [data EXCEPT ![u] =
                               Some([Unwrap(data[u]) EXCEPT !.access_level = access])]
                       ELSE data
            /\ chan' = notify_cache_handler(chan, u)
            /\ ret' = Call("modify_access_level", u, access, <<"Ok", "unit">>,
                           Notified(chan), "none")
            /\ UNCHANGED <<clients, locked, db, taskVars>>

\* modify_access_level that also updates the access column of the row
modify_access_level_write_through(u, access) ==
    /\ nops < MaxOps
    /\ nops' = nops + 1
    /\ IF data[u] = None
       THEN ClientNotRegistered("modify_access_level", u, access)
       ELSE /\ data' = [data EXCEPT ![u] =
                   Some([Unwrap(data[u]) EXCEPT !.access_level = access])]
            /\ db' = IF db[u] = None THEN db
                     ELSE [db EXCEPT ![u] =
                             Some([Unwrap(db[u]) EXCEPT !.access = to_string(access)])]
            /\ chan' = notify_cache_handler(chan, u)
            /\ ret' = Call("modify_access_level", u, access, <<"Ok", "unit">>,
                           Notified(chan), "update")
            /\ UNCHANGED <<clients, locked, taskVars>>

\* ClientHandler::modify_access_level
modify_access_level(u, access) ==
    /\ nops < MaxOps
    /\ nops' = nops + 1
    /\ IF data[u] = None
       THEN ClientNotRegistered("modify_access_level", u, access)
       ELSE /\ data' = [data EXCEPT ![u] =
                   Some([Unwrap(data[u]) EXCEPT !.access_level = access])]
            /\ chan' = notify_cache_handler(chan, u)
            /\ ret' = Call("modify_access_level", u, access, <<"Ok", "unit">>,
                           Notified(chan), "none")
            /\ UNCHANGED <<clients, locked, db, taskVars>>

\* a map whose get_mut hands out its guard while another guard is held
Holding_never(u) == FALSE

\* a caller holds the write guard that get_mut returned for the record of u
\* (it awaits the store or the channel inside the Some arm of its match)
Holding(u) ==
    \E c \in Callers :
        inflight[c].id = u /\ inflight[c].at \in {"mark", "notify_held"}

\* --------------------------------------------------------- CacheHandler
InCache(u) == u \in Ids /\ data[u] # None

\* CacheHandler::update_db_entry: UPDATE BotClient SET registered, access,
\* subscriptions, created_at, last_access WHERE id; str is the text that
\* Subscriptions::to_string produced for the record
update_db_entry(table, u, new_data, str) ==
    IF table[u] = None THEN table
    ELSE [table EXCEPT ![u] =
            Some([registered |-> new_data.registered,
                  access |-> to_string(new_data.access_level),
                  subscriptions |-> IF new_data.subscriptions = None THEN None
                                    ELSE Some(str),
                  created_at |-> new_data.created_at,
                  last_access |-> new_data.last_update])]

\* the texts to_string may produce for the subscriptions of a record
SubTexts(new_data) ==
    IF new_data.subscriptions = None THEN {<<>>}
    ELSE SubToStrings(Unwrap(new_data.subscriptions))

\* the ClientMeta that load_cache and retrieve_db_entry build from a row
MetaOfRow(r) ==
    LET access == from_str(r.access)
        subs == IF r.subscriptions = None THEN <<"Ok", None>>
                ELSE LET s == SubTryFrom(Unwrap(r.subscriptions))
                     IN  IF s[1] = "Ok" THEN <<"Ok", Some(s[2])>> ELSE s
    IN  IF access[1] = "Err" \/ subs[1] = "Err"
        THEN <<"Err", "UnknownDbError">>
        ELSE <<"Ok", [registered |-> r.registered,
                      access_level |-> access[2],
                      subscriptions |-> subs[2],
                      last_access |-> r.last_access,
                      last_update |-> Some("ts"),
                      created_at |-> r.created_at]>>

\* the task that logs the error of an operation and goes on receiving
Finish_swallow(res) ==
    /\ result' = res
    /\ work' = <<>>
    /\ cont' = "none"
    /\ pc' = IF cont = "idle" THEN "idle"
             ELSE IF cont = "stop" THEN "done"
             ELSE "recv"

\* where the task or the direct caller is once the running operation ends
\* with the result res
Finish(res) ==
    /\ result' = res
    /\ work' = <<>>
    /\ cont' = "none"
    /\ pc' = IF cont = "idle" THEN "idle"
             ELSE IF res[1] = "Err" THEN "failed"
             ELSE IF cont = "stop" THEN "done"
             ELSE "recv"

\* the bot sends a command on its clone of the sender (tx.send(..).await)
send(msg) ==
    /\ nops < MaxOps
    /\ nops' = nops + 1
    /\ Len(chan) < ChanCap
    /\ chan' = Append(chan, msg)
    /\ ret' = Call("send", 0, msg, <<"Ok", "unit">>, "none", "none")
    /\ UNCHANGED <<cacheVars, db, taskVars>>

\* tokio::spawn(cache_handler.start())
start ==
    /\ pc = "idle"
    /\ pc' = "recv"
    /\ UNCHANGED <<cacheVars, db, chan, update_queue, queue_service, inflight, work, cont,
                   result, nops, ret>>

\* the task that takes a message while a flush is still running
Receiving_during_flush == pc \in {"recv", "flush"}

\* CacheHandler::start: the task is at self.rx_channel.recv().await
Receiving == pc = "recv"

\* the threshold test with > for >=
QueueDue_strict(queue, threshold) == Len(queue) > threshold

\* CacheHandler::start, the Ping arm: the queue has reached queue_service
QueueDue(queue, threshold) == Len(queue) >= threshold

\* process_queue that clones the queue and forgets to clear it
Drained_keep(queue) == queue

\* CacheHandler::process_queue: queue.clear() under the lock of the queue
Drained(queue) == <<>>

\* CacheHandler::start, one turn of the loop: take a message and dispatch it
recv ==
    /\ Receiving
    /\ chan # <<>>
    /\ chan' = Tail(chan)
    /\ LET c == CmdFrom(Head(chan))
       IN  CASE c.cmd = "Ping" ->
                  IF QueueDue(update_queue, queue_service) /\ update_queue # <<>>
                  THEN \* process_queue: swap the queue for an empty one
                       /\ work' = update_queue
                       /\ update_queue' = Drained(update_queue)
                       /\ pc' = "flush"
                       /\ cont' = "recv"
                       /\ UNCHANGED <<locked, result>>
                  ELSE UNCHANGED <<update_queue, pc, work, cont, locked, result>>
             [] c.cmd = "Update" ->
                  LET id == ParseU64(c.payload)
                  IN  IF id[1] = "Err"
                      THEN \* u.parse().unwrap() panics: the task is gone
                           /\ pc' = "panicked"
                           /\ result' = id
                           /\ UNCHANGED <<update_queue, work, cont, locked>>
                      ELSE /\ update_queue' = Append(update_queue, id[2])
                           /\ UNCHANGED <<pc, work, cont, locked, result>>
             [] OTHER ->
                  \* Stop: save_cache, then leave the loop
                  IF clients = <<>>
                  THEN /\ pc' = "done"
                       /\ result' = <<"Ok", "unit">>
                       /\ UNCHANGED <<update_queue, work, cont, locked>>
                  ELSE /\ locked' = TRUE
                       /\ work' = clients
                       /\ pc' = "save"
                       /\ cont' = "stop"
                       /\ UNCHANGED <<update_queue, result>>
    /\ UNCHANGED <<data, clients, db, queue_service, inflight, nops, ret>>

\* process_queue that puts the ids it has not written back in the queue
\* when the store fails
process_queue_requeue(dbOk) ==
    /\ pc = "flush"
    /\ ~Holding(Head(work))
    /\ LET item == Head(work)
       IN  IF ~InCache(item)
           THEN /\ Finish(<<"Err", "CacheIncongruence">>)
                /\ UNCHANGED <<db, update_queue>>
           ELSE IF ~dbOk
           THEN /\ Finish(<<"Err", "UnknownDbError">>)
                /\ update_queue' = work
                /\ db' = db
           ELSE /\ \E str \in SubTexts(Unwrap(data[item])) :
                      db' = update_db_entry(db, item, Unwrap(data[item]), str)
                /\ update_queue' = update_queue
                /\ IF Tail(work) = <<>>
                   THEN Finish(<<"Ok", "unit">>)
                   ELSE /\ work' = Tail(work)
                        /\ UNCHANGED <<pc, cont, result>>
    /\ UNCHANGED <<cacheVars, chan, queue_service, inflight, nops, ret>>

\* process_queue that skips a queued id that has no cache record
process_queue_skip(dbOk) ==
    /\ pc = "flush"
    /\ ~Holding(Head(work))
    /\ LET item == Head(work)
       IN  IF InCache(item) /\ ~dbOk
           THEN /\ Finish(<<"Err", "UnknownDbError">>)
                /\ db' = db
           ELSE /\ IF InCache(item)
                   THEN \E str \in SubTexts(Unwrap(data[item])) :
                          db' = update_db_entry(db, item, Unwrap(data[item]), str)
                   ELSE db' = db
                /\ IF Tail(work) = <<>>
                   THEN Finish(<<"Ok", "unit">>)
                   ELSE /\ work' = Tail(work)
                        /\ UNCHANGED <<pc, cont, result>>
    /\ UNCHANGED <<cacheVars, chan, update_queue, queue_service, inflight, nops, ret>>

\* CacheHandler::process_queue, one turn of the loop over the swapped list;
\* cache.data.get waits while a caller holds the write guard of the record
process_queue(dbOk) ==
    /\ pc = "flush"
    /\ ~Holding(Head(work))
    /\ LET item == Head(work)
       IN  IF ~InCache(item)
           THEN /\ Finish(<<"Err", "CacheIncongruence">>)
                /\ db' = db
           ELSE IF ~dbOk
           THEN /\ Finish(<<"Err", "UnknownDbError">>)
                /\ db' = db
           ELSE /\ \E str \in SubTexts(Unwrap(data[item])) :
                      db' = update_db_entry(db, item, Unwrap(data[item]), str)
                /\ IF Tail(work) = <<>>
                   THEN Finish(<<"Ok", "unit">>)
                   ELSE /\ work' = Tail(work)
                        /\ UNCHANGED <<pc, cont, result>>
    /\ UNCHANGED <<cacheVars, chan, update_queue, queue_service, inflight, nops, ret>>

\* CacheHandler::save_cache called by the owner of the handler before the
\* task is spawned: it takes the lock of the key list
call_save_cache ==
    /\ pc = "idle"
    /\ nops < MaxOps
    /\ nops' = nops + 1
    /\ IF clients = <<>>
       THEN /\ result' = <<"Ok", "unit">>
            /\ UNCHANGED <<locked, work, pc, cont>>
       ELSE /\ locked' = TRUE
            /\ work' = clients
            /\ pc' = "save"
            /\ cont' = "idle"
            /\ UNCHANGED result
    /\ ret' = Call("save_cache", 0, {}, <<"Ok", "unit">>, "none", "none")
    /\ UNCHANGED <<data, clients, db, chan, update_queue, queue_service, inflight>>

\* save_cache that skips a listed id that has no cache record
save_cache_skip(dbOk) ==
    /\ pc = "save"
    /\ ~Holding(Head(work))
    /\ LET client == Head(work)
       IN  IF InCache(client) /\ ~dbOk
           THEN /\ Finish(<<"Err", "UnknownDbError">>)
                /\ locked' = FALSE
                /\ db' = db
           ELSE /\ IF InCache(client)
                   THEN \E str \in SubTexts(Unwrap(data[client])) :
                          db' = update_db_entry(db, client, Unwrap(data[client]), str)
                   ELSE db' = db
                /\ IF Tail(work) = <<>>
                   THEN /\ Finish(<<"Ok", "unit">>)
                        /\ locked' = FALSE
                   ELSE /\ work' = Tail(work)
                        /\ UNCHANGED <<pc, cont, result, locked>>
    /\ UNCHANGED <<data, clients, chan, update_queue, queue_service, inflight, nops, ret>>

\* CacheHandler::save_cache, one turn of the loop over the key list;
\* cache.data.get waits while a caller holds the write guard of the record
save_cache(dbOk) ==
    /\ pc = "save"
    /\ ~Holding(Head(work))
    /\ LET client == Head(work)
       IN  IF ~InCache(client)
           THEN /\ Finish(<<"Err", "CacheIncongruence">>)
                /\ locked' = FALSE
                /\ db' = db
           ELSE IF ~dbOk
           THEN /\ Finish(<<"Err", "UnknownDbError">>)
                /\ locked' = FALSE
                /\ db' = db
           ELSE /\ \E str \in SubTexts(Unwrap(data[client])) :
                      db' = update_db_entry(db, client, Unwrap(data[client]), str)
                /\ IF Tail(work) = <<>>
                   THEN /\ Finish(<<"Ok", "unit">>)
                        /\ locked' = FALSE
                   ELSE /\ work' = Tail(work)
                        /\ UNCHANGED <<pc, cont, result, locked>>
    /\ UNCHANGED <<data, clients, chan, update_queue, queue_service, inflight, nops, ret>>

\* CacheHandler::load_cache called by the owner of the handler:
\* SELECT * from BotClient, the rows in the order the store yields them
call_load_cache(dbOk) ==
    /\ pc = "idle"
    /\ nops < MaxOps
    /\ nops' = nops + 1
    /\ IF ~dbOk
       THEN /\ result' = <<"Err", "UnknownDbError">>
            /\ UNCHANGED <<work, pc, cont>>
       ELSE LET rows == {u \in Ids : db[u] # None}
            IN  IF rows = {}
                THEN /\ result' = <<"Ok", "unit">>
                     /\ UNCHANGED <<work, pc, cont>>
                ELSE /\ \E o \in Orders(rows) :
                           work' = [i \in 1..Len(o) |->
                                       [id |-> o[i], row |-> Unwrap(db[o[i]])]]
                     /\ pc' = "load"
                     /\ cont' = "idle"
                     /\ UNCHANGED result
    /\ ret' = Call("load_cache", 0, {}, <<"Ok", "unit">>, "none", "none")
    /\ UNCHANGED <<cacheVars, db, chan, update_queue, queue_service, inflight>>

\* load_cache that leaves the record of an id that is already cached
load_cache_keep ==
    /\ pc = "load"
    /\ ~Holding(Head(work).id)
    /\ LET r == Head(work)
           meta == MetaOfRow(r.row)
       IN  /\ clients' = Append(clients, r.id)
           /\ IF meta[1] = "Err"
              THEN /\ Finish(meta)
                   /\ data' = data
              ELSE /\ data' = IF data[r.id] = None
                              THEN [data EXCEPT ![r.id] = Some(meta[2])]
                              ELSE data
                   /\ IF Tail(work) = <<>>
                      THEN Finish(<<"Ok", "unit">>)
                      ELSE /\ work' = Tail(work)
                           /\ UNCHANGED <<pc, cont, result>>
    /\ ret' = Call("load_cache", Head(work).id, {}, <<"Ok", "unit">>, "none", "none")
    /\ UNCHANGED <<locked, db, chan, update_queue, queue_service, inflight, nops>>

\* CacheHandler::load_cache, one turn of the loop over the fetched rows;
\* cache.data.insert waits while a caller holds the write guard of the record
load_cache ==
    /\ pc = "load"
    /\ ~Holding(Head(work).id)
    /\ LET r == Head(work)
           meta == MetaOfRow(r.row)
       IN  /\ clients' = Append(clients, r.id)
           /\ IF meta[1] = "Err"
              THEN /\ Finish(meta)
                   /\ data' = data
              ELSE /\ data' = [data EXCEPT ![r.id] = Some(meta[2])]
                   /\ IF Tail(work) = <<>>
                      THEN Finish(<<"Ok", "unit">>)
                      ELSE /\ work' = Tail(work)
                           /\ UNCHANGED <<pc, cont, result>>
    /\ ret' = Call("load_cache", Head(work).id, {}, <<"Ok", "unit">>, "none", "none")
    /\ UNCHANGED <<locked, db, chan, update_queue, queue_service, inflight, nops>>

\* the process is started again: ClientObjectsBuilder::build makes a new
\* cache, channel and handlers; the BotClient table is what it was
restart ==
    /\ pc \in {"idle", "recv", "done", "failed", "panicked"}
    /\ nops < MaxOps
    /\ nops' = nops + 1
    /\ data' = [u \in Ids |-> None]
    /\ clients' = <<>>
    /\ locked' = FALSE
    /\ chan' = <<>>
    /\ update_queue' = <<>>
    /\ pc' = "idle"
    /\ work' = <<>>
    /\ cont' = "none"
    /\ result' = <<"Ok", "unit">>
    /\ ret' = NoCall
    /\ UNCHANGED <<db, queue_service, inflight>>

\* every step but the turn of load_cache
NextButLoadTurn ==
    \/ \E u \in Ids : access_level(u)
    \/ \E u \in Ids, dbOk \in BOOLEAN : is_registered(u, dbOk)
    \/ \E u \in Ids, dbOk \in BOOLEAN : register_client(u, dbOk)
    \/ \E u \in Ids : subscriptions(u)
    \/ \E u \in Ids, subs \in SubArgs : add_subscriptions(u, subs)
    \/ \E u \in Ids, subs \in SubArgs : remove_subscriptions(u, subs)
    \/ \E u \in Ids, access \in BotAccess : modify_access_level(u, access)
    \/ \E msg \in ExternalMsgs : send(msg)
    \/ start
    \/ recv
    \/ \E dbOk \in BOOLEAN : process_queue(dbOk)
    \/ call_save_cache
    \/ \E dbOk \in BOOLEAN : save_cache(dbOk)
    \/ \E dbOk \in BOOLEAN : call_load_cache(dbOk)
    \/ restart

Next ==
    \/ NextButLoadTurn
    \/ load_cache

Spec == Init /\ [][Next]_vars

\* ------------------------------------- the turn of load_cache in two steps
\* load_cache that forgets the record of the row it has listed
load_cache_insert_skip ==
    /\ pc = "load_insert"
    /\ ~Holding(Head(work).id)
    /\ IF Tail(work) = <<>>
       THEN Finish(<<"Ok", "unit">>)
       ELSE /\ work' = Tail(work)
            /\ pc' = "load"
            /\ UNCHANGED <<cont, result>>
    /\ ret' = Call("load_cache", Head(work).id, {}, <<"Ok", "unit">>, "none", "none")
    /\ UNCHANGED <<cacheVars, db, chan, update_queue, queue_service, inflight, nops>>

\* load_cache, the second half of a turn: the ClientMeta is built from the
\* row (a text that does not convert ends the Load) and
\* cache.data.insert(r.id, ..).await puts it in the map
load_cache_insert ==
    /\ pc = "load_insert"
    /\ ~Holding(Head(work).id)
    /\ LET r == Head(work)
           meta == MetaOfRow(r.row)
       IN  IF meta[1] = "Err"
           THEN /\ Finish(meta)
                /\ data' = data
           ELSE /\ data' = [data EXCEPT ![r.id] = Some(meta[2])]
                /\ IF Tail(work) = <<>>
                   THEN Finish(<<"Ok", "unit">>)
                   ELSE /\ work' = Tail(work)
                        /\ pc' = "load"
                        /\ UNCHANGED <<cont, result>>
    /\ ret' = Call("load_cache", Head(work).id, {}, <<"Ok", "unit">>, "none", "none")
    /\ UNCHANGED <<clients, locked, db, chan, update_queue, queue_service, inflight, nops>>

\* load_cache, the first half of a turn:
\* self.cache.clients.lock().await.push(r.id)
load_cache_push ==
    /\ pc = "load"
    /\ ~locked
    /\ clients' = Append(clients, Head(work).id)
    /\ pc' = "load_insert"
    /\ UNCHANGED <<data, locked, db, chan, update_queue, queue_service, inflight,
                   work, cont, result, nops, ret>>

\* the steps of the engine, the other tasks running between the two awaits
\* of a turn of load_cache
NextLoadSteps ==
    \/ NextButLoadTurn
    \/ load_cache_push
    \/ load_cache_insert

SpecLoadSteps == Init /\ [][NextLoadSteps]_vars

\* ------------------------------------------------- a cache loaded at start
\* the row of a client that registered, was given the limited tier,
\* subscribed to one ticker and was saved by save_cache
SeedRow ==
    [registered |-> TRUE, access |-> to_string("Limited"),
     subscriptions |-> Some(<<"A">>), created_at |-> None,
     last_access |-> Some("ts")]

\* the state once a load_cache call, the first call made, has loaded a table
\* that holds the row of client 1
InitLoaded ==
    /\ db = [u \in Ids |-> IF u = 1 THEN Some(SeedRow) ELSE None]
    /\ data = [u \in Ids |-> IF u = 1 THEN Some(MetaOfRow(SeedRow)[2]) ELSE None]
    /\ clients = <<1>>
    /\ locked = FALSE
    /\ chan = <<>>
    /\ update_queue = <<>>
    /\ queue_service \in 0..MaxThreshold
    /\ pc = "idle"
    /\ work = <<>>
    /\ cont = "none"
    /\ result = <<"Ok", "unit">>
    /\ nops = 1
    /\ ret = Call("load_cache", 1, {}, <<"Ok", "unit">>, "none", "none")
    /\ inflight = [c \in Callers |-> NoFlight]

SpecLoaded == InitLoaded /\ [][Next]_vars

\* ------------------------------------- update messages sent by the bot
\* the bot also sends update:<id> on its clone of the sender, for any id
NextUpdates ==
    \/ Next
    \/ \E u \in Ids : send(MsgUpdate(u))

SpecUpdates == Init /\ [][NextUpdates]_vars

\* ------------------------------- update messages that carry no valid id
\* update messages whose payload is missing, empty or not a decimal number
MalformedUpdates ==
    {VerbUpdate, VerbUpdate \o <<":">>, VerbUpdate \o <<":", "x">>,
     VerbUpdate \o <<":", "1", "x">>}

\* a holder of a clone of the sender also sends such messages
NextMalformed ==
    \/ Next
    \/ \E msg \in MalformedUpdates : send(msg)

SpecMalformed == Init /\ [][NextMalformed]_vars

\* ------------------------------------- a table with rows of any origin
\* a row whose access text is none of the four tiers
BadAccessRow == [SeedRow EXCEPT !.access = "vip"]

\* a row whose subscriptions text holds a ticker of five characters
LongTickerRow ==
    [SeedRow EXCEPT !.subscriptions = Some(<<"L", "O", "N", "G", "S">>)]

\* the rows the BotClient table may hold when the handlers are built
StoreRows == {SeedRow, BadAccessRow, LongTickerRow}

\* the handlers are built on a table that already holds rows
InitStore ==
    /\ data = [u \in Ids |-> None]
    /\ clients = <<>>
    /\ locked = FALSE
    /\ db \in [Ids -> {None} \cup {Some(r) : r \in StoreRows}]
    /\ chan = <<>>
    /\ update_queue = <<>>
    /\ queue_service = 0
    /\ pc = "idle"
    /\ work = <<>>
    /\ cont = "none"
    /\ result = <<"Ok", "unit">>
    /\ nops = 0
    /\ ret = NoCall
    /\ inflight = [c \in Callers |-> NoFlight]

\* the calls the owner of the handlers makes before the task is spawned
NextStore ==
    \/ \E dbOk \in BOOLEAN : call_load_cache(dbOk)
    \/ load_cache
    \/ call_save_cache
    \/ \E dbOk \in BOOLEAN : save_cache(dbOk)
    \/ \E u \in Ids, dbOk \in BOOLEAN : is_registered(u, dbOk)
    \/ \E u \in Ids, access \in BotAccess : modify_access_level(u, access)

SpecStore == InitStore /\ [][NextStore]_vars

\* ------------------------------------- two callers, calls step by step
\* the cache holds client 1, loaded with or without a subscription
InitRace ==
    /\ db \in {[u \in Ids |-> IF u = 1 THEN Some(r) ELSE None] :
                 r \in {SeedRow, [SeedRow EXCEPT !.subscriptions = None]}}
    /\ data = [u \in Ids |-> IF db[u] = None THEN None
                              ELSE Some(MetaOfRow(Unwrap(db[u]))[2])]
    /\ clients = <<1>>
    /\ locked = FALSE
    /\ chan = <<>>
    /\ update_queue = <<>>
    /\ queue_service = 0
    /\ pc = "idle"
    /\ work = <<>>
    /\ cont = "none"
    /\ result = <<"Ok", "unit">>
    /\ nops = 1
    /\ ret = Call("load_cache", 1, {}, <<"Ok", "unit">>, "none", "none")
    /\ inflight = [c \in Callers |-> NoFlight]

\* the caller c starts the call op(u, arg) and is at the step at
Fly(c, op, u, arg, at) ==
    [inflight EXCEPT ![c] = [op |-> op, id |-> u, arg |-> arg, at |-> at,
                             res |-> <<"Ok", "unit">>, dbw |-> "none"]]

\* the call op(u, arg) of the caller c returns res at once
Returned(c, op, u, arg, res) ==
    [inflight EXCEPT ![c] = [op |-> op, id |-> u, arg |-> arg, at |-> "done",
                             res |-> res, dbw |-> "none"]]

\* the call in flight of the caller c returns res
Return(c, res) == [inflight EXCEPT ![c].at = "done", ![c].res = res]

\* is_registered, up to its first await after cache.data.get
is_registered_get(c, u) ==
    /\ inflight[c].at = "idle"
    /\ ~Holding(u)
    /\ inflight' =
         IF data[u] # None
         THEN Returned(c, "is_registered", u, {},
                       <<"Ok", Unwrap(data[u]).registered>>)
         ELSE Fly(c, "is_registered", u, {}, "insert")
    /\ UNCHANGED <<cacheVars, db, chan, update_queue, queue_service, pc, work,
                   cont, result, nops, ret>>

\* register_client, from cache.data.get_mut to its first await
register_client_get_mut(c, u) ==
    /\ inflight[c].at = "idle"
    /\ ~Holding(u)
    /\ IF data[u] = None
       THEN /\ inflight' = Fly(c, "register_client", u, {}, "insert")
            /\ data' = data
       ELSE IF ~Unwrap(data[u]).registered
       THEN /\ data' = [data EXCEPT ![u] =
                   Some([Unwrap(data[u]) EXCEPT !.registered = TRUE,
                                                !.last_access = Some("ts"),
                                                !.last_update = Some("ts")])]
            /\ inflight' = Fly(c, "register_client", u, {}, "mark")
       ELSE /\ inflight' = Fly(c, "register_client", u, {}, "push")
            /\ data' = data
    /\ UNCHANGED <<clients, locked, db, chan, update_queue, queue_service, pc,
                   work, cont, result, nops, ret>>

\* db_register_client awaited by is_registered or register_client: the
\* INSERT fails when the table already has a row for the id
db_insert(c) ==
    /\ inflight[c].at = "insert"
    /\ IF db[inflight[c].id] # None
       THEN /\ inflight' = [Return(c, <<"Err", "UnknownDbError">>)
                               EXCEPT ![c].dbw = "duplicate"]
            /\ db' = db
       ELSE /\ db' = db_register_client(db, inflight[c].id,
                                        inflight[c].op = "is_registered")
            /\ inflight' = [inflight EXCEPT ![c].at = "cache",
                                            ![c].dbw = "insert"]
    /\ UNCHANGED <<cacheVars, chan, update_queue, queue_service, pc, work,
                   cont, result, nops, ret>>

\* cache.data.insert awaited by is_registered or register_client
cache_insert(c) ==
    /\ inflight[c].at = "cache"
    /\ ~Holding(inflight[c].id)
    /\ data' = [data EXCEPT ![inflight[c].id] =
           IF inflight[c].op = "is_registered" THEN Some(DefaultMeta)
           ELSE Some([DefaultMeta EXCEPT !.registered = TRUE,
                                         !.last_access = Some("ts"),
                                         !.last_update = Some("ts")])]
    /\ inflight' = [inflight EXCEPT ![c].at =
           IF inflight[c].op = "is_registered" THEN "notify" ELSE "push"]
    /\ UNCHANGED <<clients, locked, db, chan, update_queue, queue_service, pc,
                   work, cont, result, nops, ret>>

\* notify_cache_handler awaited by is_registered
notify(c) ==
    /\ inflight[c].at = "notify"
    /\ chan' = notify_cache_handler(chan, inflight[c].id)
    /\ inflight' = [inflight EXCEPT ![c].at = "push"]
    /\ UNCHANGED <<cacheVars, db, update_queue, queue_service, pc, work, cont,
                   result, nops, ret>>

\* db_mark_as_registered awaited by register_client under the guard
mark(c) ==
    /\ inflight[c].at = "mark"
    /\ db' = db_mark_as_registered(db, inflight[c].id)
    /\ inflight' = [inflight EXCEPT ![c].at = "push", ![c].dbw = "update"]
    /\ UNCHANGED <<cacheVars, chan, update_queue, queue_service, pc, work, cont,
                   result, nops, ret>>

\* a push that does not wait for the lock of the key list
push_unlocked(c) ==
    /\ inflight[c].at = "push"
    /\ clients' = Append(clients, inflight[c].id)
    /\ inflight' = Return(c, IF inflight[c].op = "is_registered"
                             THEN <<"Ok", FALSE>> ELSE <<"Ok", "unit">>)
    /\ UNCHANGED <<data, locked, db, chan, update_queue, queue_service, pc, work,
                   cont, result, nops, ret>>

\* cache.clients.lock().await.push(id), then the call returns
push(c) ==
    /\ inflight[c].at = "push"
    /\ ~locked
    /\ clients' = Append(clients, inflight[c].id)
    /\ inflight' = Return(c, IF inflight[c].op = "is_registered"
                             THEN <<"Ok", FALSE>> ELSE <<"Ok", "unit">>)
    /\ UNCHANGED <<data, locked, db, chan, update_queue, queue_service, pc, work,
                   cont, result, nops, ret>>

\* add_subscriptions, from cache.data.get_mut to its await or its return
add_subscriptions_get_mut(c, u, subs) ==
    /\ inflight[c].at = "idle"
    /\ ~Holding(u)
    /\ IF data[u] = None
       THEN /\ inflight' = Returned(c, "add_subscriptions", u, subs,
                                    <<"Err", "ClientNotRegistered">>)
            /\ data' = data
       ELSE /\ data' = [data EXCEPT ![u] =
                   Some([Unwrap(data[u]) EXCEPT !.subscriptions =
                           AddedSubscriptions(Unwrap(data[u]).subscriptions, subs)])]
            /\ inflight' =
                 IF Unwrap(data[u]).subscriptions = None
                 THEN Fly(c, "add_subscriptions", u, subs, "notify_held")
                 ELSE Returned(c, "add_subscriptions", u, subs, <<"Ok", "unit">>)
    /\ UNCHANGED <<clients, locked, db, chan, update_queue, queue_service, pc,
                   work, cont, result, nops, ret>>

\* remove_subscriptions, from cache.data.get_mut to its await or its return
remove_subscriptions_get_mut(c, u, subs) ==
    /\ inflight[c].at = "idle"
    /\ ~Holding(u)
    /\ IF data[u] = None
       THEN /\ inflight' = Returned(c, "remove_subscriptions", u, subs,
                                    <<"Err", "ClientNotRegistered">>)
            /\ data' = data
       ELSE /\ data' = [data EXCEPT ![u] =
                   Some([Unwrap(data[u]) EXCEPT !.subscriptions =
                           RemovedSubscriptions(Unwrap(data[u]).subscriptions, subs)])]
            /\ inflight' =
                 IF Unwrap(data[u]).subscriptions = None
                 THEN Returned(c, "remove_subscriptions", u, subs, <<"Ok", "unit">>)
                 ELSE Fly(c, "remove_subscriptions", u, subs, "notify_held")
    /\ UNCHANGED <<clients, locked, db, chan, update_queue, queue_service, pc,
                   work, cont, result, nops, ret>>

\* a notification under the guard that waits for room in the channel
notify_held_wait(c) ==
    /\ inflight[c].at = "notify_held"
    /\ Len(chan) < ChanCap
    /\ chan' = Append(chan, MsgUpdate(inflight[c].id))
    /\ inflight' = Return(c, <<"Ok", "unit">>)
    /\ UNCHANGED <<cacheVars, db, update_queue, queue_service, pc, work, cont,
                   result, nops, ret>>

\* notify_cache_handler awaited by add_subscriptions or remove_subscriptions
\* under the guard; the call then returns and drops the guard
notify_held(c) ==
    /\ inflight[c].at = "notify_held"
    /\ chan' = notify_cache_handler(chan, inflight[c].id)
    /\ inflight' = Return(c, <<"Ok", "unit">>)
    /\ UNCHANGED <<cacheVars, db, update_queue, queue_service, pc, work, cont,
                   result, nops, ret>>

\* each caller makes one call; the steps of the two calls interleave
NextRace ==
    \/ \E c \in Callers, u \in Ids : is_registered_get(c, u)
    \/ \E c \in Callers, u \in Ids : register_client_get_mut(c, u)
    \/ \E c \in Callers : db_insert(c)
    \/ \E c \in Callers : cache_insert(c)
    \/ \E c \in Callers : notify(c)
    \/ \E c \in Callers : mark(c)
    \/ \E c \in Callers : push(c)
    \/ \E c \in Callers, u \in Ids, subs \in SubArgs :
          add_subscriptions_get_mut(c, u, subs)
    \/ \E c \in Callers, u \in Ids, subs \in SubArgs :
          remove_subscriptions_get_mut(c, u, subs)
    \/ \E c \in Callers : notify_held(c)

SpecRace == InitRace /\ [][NextRace]_vars

\* the two callers, and the owner of the cache handler calling save_cache
\* and load_cache while their calls are in flight
NextRaceSave ==
    \/ NextRace
    \/ call_save_cache
    \/ \E dbOk \in BOOLEAN : save_cache(dbOk)
    \/ \E dbOk \in BOOLEAN : call_load_cache(dbOk)
    \/ load_cache

\* the cache holds client 1, and the owner has one call left to make
InitRaceSave ==
    /\ db \in {[u \in Ids |-> IF u = 1 THEN Some(r) ELSE None] :
                 r \in {SeedRow, [SeedRow EXCEPT !.subscriptions = None]}}
    /\ data = [u \in Ids |-> IF db[u] = None THEN None
                              ELSE Some(MetaOfRow(Unwrap(db[u]))[2])]
    /\ clients = <<1>>
    /\ locked = FALSE
    /\ chan = <<>>
    /\ update_queue = <<>>
    /\ queue_service = 0
    /\ pc = "idle"
    /\ work = <<>>
    /\ cont = "none"
    /\ result = <<"Ok", "unit">>
    /\ nops = MaxOps - 1
    /\ ret = Call("load_cache", 1, {}, <<"Ok", "unit">>, "none", "none")
    /\ inflight = [c \in Callers |-> NoFlight]

SpecRaceSave == InitRaceSave /\ [][NextRaceSave]_vars

\* ------------------------------- the callers and the task, scheduled fairly
\* the two callers, the owner of the cache handler and the task
NextLive ==
    \/ NextRaceSave
    \/ \E msg \in ExternalMsgs : send(msg)
    \/ start
    \/ recv
    \/ \E dbOk \in BOOLEAN : process_queue(dbOk)

\* the runtime goes on polling every future that can make a step, and the
\* store answers every statement (with a result or with an error)
FairLive ==
    /\ \A c \in Callers :
          /\ WF_vars(db_insert(c))
          /\ WF_vars(cache_insert(c))
          /\ WF_vars(notify(c))
          /\ WF_vars(mark(c))
          /\ WF_vars(push(c))
          /\ WF_vars(notify_held(c))
    /\ WF_vars(\E dbOk \in BOOLEAN : process_queue(dbOk))
    /\ WF_vars(\E dbOk \in BOOLEAN : save_cache(dbOk))
    /\ WF_vars(load_cache)

SpecLive == InitRaceSave /\ [][NextLive]_vars /\ FairLive

\* ------------------------------------------------------ command parsing
\* the pieces the messages of the parsing check are made of
ParsePieces ==
    {MsgPing, VerbUpdate, MsgSave, MsgLoad, MsgStop, <<"1">>, <<"x">>, <<>>}

\* the messages handed to the parser: up to three pieces joined by ':'
ParseInputs ==
    UNION {{Join(t, ":") : t \in [1..n -> ParsePieces]} : n \in 1..3}

\* CacheHandlerCmd::from(msg.to_string()) applied to one message
from(msg) ==
    /\ ret.op # "from"
    /\ ret' = Call("from", 0, msg, <<"Ok", CmdFrom(msg)>>, "none", "none")
    /\ UNCHANGED <<cacheVars, db, chan, taskVars, nops>>

NextParse == \E msg \in ParseInputs : from(msg)

SpecParse == Init /\ [][NextParse]_vars

\* ------------------------------------------------ subscription building
\* the tokens the texts and the lists of the conversion check are made of:
\* the empty one, tickers of one and four characters, one of five, and one
\* of three characters that takes six bytes
TickerPieces ==
    {<<>>, <<"A">>, <<"A", "B", "C", "D">>, <<"A", "B", "C", "D", "E">>,
     <<WideChar, WideChar, WideChar>>}

\* up to three tokens
TickerLists == UNION {[1..n -> TickerPieces] : n \in 1..3}

\* Subscriptions::try_from(value) of a text
try_from_str(value) ==
    /\ ret.op \notin {"try_from_str", "try_from_slice"}
    /\ ret' = Call("try_from_str", 0, value, SubTryFrom(value), "none", "none")
    /\ UNCHANGED <<cacheVars, db, chan, taskVars, nops>>

\* Subscriptions::try_from(value) of a list of tokens
try_from_slice(value) ==
    /\ ret.op \notin {"try_from_str", "try_from_slice"}
    /\ ret' = Call("try_from_slice", 0, value, SubTryFromSlice(value), "none", "none")
    /\ UNCHANGED <<cacheVars, db, chan, taskVars, nops>>

NextTryFrom ==
    \/ \E t \in TickerLists : try_from_str(Join(t, ";"))
    \/ \E t \in TickerLists : try_from_slice(t)

SpecTryFrom == Init /\ [][NextTryFrom]_vars

\* --------------------------------------- subscriptions written and read
\* the Subscriptions values the round trip is applied to: every set of the
\* tokens of at most four characters, the empty set included
RoundTripSets == SUBSET {t \in TickerPieces : Len(t) <= CHARS_PER_TICKER}

\* Subscriptions::try_from(self.to_string().as_str()): the text is the
\* tickers joined in one of the orders the HashSet may yield them
try_from_to_string(self) ==
    /\ ret.op # "try_from_to_string"
    /\ \E str \in SubToStrings(self) :
          ret' = Call("try_from_to_string", 0, [set |-> self, text |-> str],
                      SubTryFrom(str), "none", "none")
    /\ UNCHANGED <<cacheVars, db, chan, taskVars, nops>>

NextRoundTrip == \E self \in RoundTripSets : try_from_to_string(self)

SpecRoundTrip == Init /\ [][NextRoundTrip]_vars

\* ---------------------------------------------------------------- steps
\* the step is a call of op (every counted call leaves its record in ret)
Called(op) == nops' = nops + 1 /\ ret'.op = op

CalledOn(op, u) == Called(op) /\ ret'.id = u

\* the step is one turn of the loop of load_cache
LoadStep == nops' = nops /\ pc = "load"

\* the record of a cached id
Meta(d, u) == Unwrap(d[u])

\* the row of a stored id
Row(table, u) == Unwrap(table[u])

\* -------------------------------------------------------------- claims

\* C1: read-your-writes on the cache.  A successful modify_access_level(u, a)
\* leaves tier a in the cache record of u; access_level(u) returns the tier
\* of the cache record; and no step other than a modify_access_level(u, _),
\* a turn of Load or a new build of the cache changes the tier of a cached
\* id, whatever became of the notification.
C1_ReadYourWrites ==
    [][\A u \in Ids :
        /\ (CalledOn("modify_access_level", u) /\ ret'.res[1] = "Ok")
              => (data'[u] # None /\ Meta(data', u).access_level = ret'.arg)
        /\ (CalledOn("access_level", u) /\ data[u] # None)
              => ret'.res = <<"Ok", Meta(data, u).access_level>>
        /\ (data[u] # None /\ ~CalledOn("modify_access_level", u)
              /\ ~LoadStep /\ ~Called("build"))
              => (data'[u] # None
                  /\ Meta(data', u).access_level = Meta(data, u).access_level)
    ]_vars

\* access_level returns Admin for a soft-registered id whose registration
\* filled the channel (the notification of the modification was dropped)
\* and whose row still says free
C1_Witness ==
    /\ ret.op = "access_level"
    /\ ret.res = <<"Ok", "Admin">>
    /\ ~Meta(data, ret.id).registered
    /\ chan = <<MsgUpdate(ret.id)>>
    /\ Len(chan) = ChanCap
    /\ pc = "idle"
    /\ Row(db, ret.id).access = "free"

\* C2: lazy soft registration.  is_registered(u) on an id absent from the
\* cache that does not end with a store error returns false; the store then
\* holds the default row of u, the cache the default record, u is the new
\* last element of the key list and one update:<u> message was handed to the
\* channel (queued when there was room, dropped otherwise).
C2_LazySoftRegistration ==
    [][\A u \in Ids :
        (CalledOn("is_registered", u) /\ data[u] = None /\ ret'.res[1] = "Ok")
        => /\ ret'.res = <<"Ok", FALSE>>
           /\ db[u] = None
           /\ db'[u] = {[registered |-> FALSE, access |-> "free",
                         subscriptions |-> {}, created_at |-> {"ts"},
                         last_access |-> {}]}
           /\ \A v \in Ids \ {u} : db'[v] = db[v]
           /\ data'[u] = {DefaultMeta}
           /\ clients' = clients \o <<u>>
           /\ ret'.notify \in {"sent", "dropped"}
           /\ chan' = IF Len(chan) < ChanCap
                      THEN chan \o <<<<"u", "p", "d", "a", "t", "e", ":">> \o Dec(u)>>
                      ELSE chan
    ]_vars

\* a first is_registered has returned false and left its row
C2_Witness ==
    /\ ret.op = "is_registered"
    /\ ret.dbw = "insert"
    /\ ret.res = <<"Ok", FALSE>>
    /\ ret.notify = "sent"
    /\ db[ret.id] # None

\* C3: is_registered(u) on a cached id that is not hard-registered returns
\* false and changes neither the store, the cache nor the key list; the
\* INSERT is run only by a call that finds u absent from the cache.
C3_SecondCallNoInsert ==
    [][\A u \in Ids :
        /\ (CalledOn("is_registered", u) /\ data[u] # None
              /\ ~Meta(data, u).registered)
              => /\ ret'.res = <<"Ok", FALSE>>
                 /\ ret'.dbw = "none"
                 /\ db' = db
                 /\ data' = data
                 /\ clients' = clients
        /\ (CalledOn("is_registered", u) /\ db' # db) => data[u] = None
    ]_vars

\* a second is_registered on a soft-registered id has returned false
C3_Witness ==
    /\ ret.op = "is_registered"
    /\ ret.dbw = "none"
    /\ ret.res = <<"Ok", FALSE>>
    /\ data[ret.id] # None
    /\ Len(clients) = 1

\* C4: is_registered(u) returns true iff the cache record of u has the
\* registered flag, and the flag gets set only by a register_client(u) that
\* returns Ok or by a turn of Load.
C4_TrueOnlyForHardRegistered ==
    [][\A u \in Ids :
        /\ CalledOn("is_registered", u)
              => (ret'.res = <<"Ok", TRUE>>
                    <=> (data[u] # None /\ Meta(data, u).registered))
        /\ ((data[u] = None \/ ~Meta(data, u).registered)
              /\ data'[u] # None /\ Meta(data', u).registered)
              => \/ CalledOn("register_client", u) /\ ret'.res[1] = "Ok"
                 \/ LoadStep
    ]_vars

\* C5: register_client(u) writes through.  When it returns Ok for an id that
\* was absent or soft-registered, the record and the row of u have
\* registered = true; for an absent id the row is new, with access free and
\* no subscriptions; for a soft-registered id the row and the record are
\* the old ones but for the flag (and the time stamps of the record).
C5_RegisterWritesThrough ==
    [][\A u \in Ids :
        (CalledOn("register_client", u) /\ ret'.res[1] = "Ok"
           /\ (data[u] = None \/ ~Meta(data, u).registered))
        => /\ data'[u] # None /\ Meta(data', u).registered
           /\ db'[u] # None /\ Row(db', u).registered
           /\ data[u] = None =>
                 /\ db[u] = None
                 /\ Row(db', u).access = "free"
                 /\ Row(db', u).subscriptions = {}
                 /\ Meta(data', u).access_level = "Free"
                 /\ Meta(data', u).subscriptions = {}
           /\ data[u] # None =>
                 /\ db[u] # None
                 /\ Row(db', u) = [Row(db, u) EXCEPT !.registered = TRUE]
                 /\ Meta(data', u).access_level = Meta(data, u).access_level
                 /\ Meta(data', u).subscriptions = Meta(data, u).subscriptions
    ]_vars

\* register_client has promoted a soft-registered id that had been given
\* another tier
C5_Witness ==
    /\ ret.op = "register_client"
    /\ ret.dbw = "update"
    /\ ret.res[1] = "Ok"
    /\ Meta(data, ret.id).registered
    /\ Row(db, ret.id).registered
    /\ Meta(data, ret.id).access_level # "Free"

\* C6: register_client(u) on a hard-registered id returns Ok, runs no
\* statement on the store and leaves the cache as it is; the row of u is
\* still there; register_client fails only when the store refuses its
\* statement.
C6_RegisterIdempotent ==
    [][\A u \in Ids :
        /\ (CalledOn("register_client", u) /\ data[u] # None
              /\ Meta(data, u).registered)
              => /\ ret'.res = <<"Ok", "unit">>
                 /\ ret'.dbw = "none"
                 /\ db' = db
                 /\ data' = data
        /\ (CalledOn("register_client", u) /\ ret'.res[1] = "Ok") => db'[u] # None
        /\ (CalledOn("register_client", u) /\ ret'.res[1] = "Err")
              => ret'.dbw \in {"insert_failed", "update_failed"}
    ]_vars

\* a second register_client has returned Ok without a statement on the store
C6_Witness ==
    /\ ret.op = "register_client"
    /\ ret.dbw = "none"
    /\ ret.res = <<"Ok", "unit">>
    /\ Row(db, ret.id).registered
    /\ Len(clients) >= 2

\* C7: access_level(u) on an id absent from the cache returns Free and
\* changes neither the map, the key list, the store, the update queue nor
\* the channel.
C7_AccessDefault ==
    [][\A u \in Ids :
        (CalledOn("access_level", u) /\ data[u] = None)
        => /\ ret'.res = <<"Ok", "Free">>
           /\ UNCHANGED <<data, clients, db, update_queue, chan>>
    ]_vars

\* access_level has answered Free for an id that has no record
C7_Witness ==
    /\ ret.op = "access_level"
    /\ ret.res = <<"Ok", "Free">>
    /\ data[ret.id] = None
    /\ db[ret.id] = None

NeedCached ==
    {"subscriptions", "add_subscriptions", "remove_subscriptions",
     "modify_access_level"}

\* C8: subscriptions, add_subscriptions, remove_subscriptions and
\* modify_access_level on an id absent from the cache return
\* ClientNotRegistered and change neither the map, the key list, the store
\* nor the channel.
C8_NotRegisteredError ==
    [][\A u \in Ids : \A op \in NeedCached :
        (CalledOn(op, u) /\ data[u] = None)
        => /\ ret'.res = <<"Err", "ClientNotRegistered">>
           /\ UNCHANGED <<data, clients, db, chan>>
    ]_vars

\* a subscription was refused for an id that has no record while another id
\* is cached
C8_Witness ==
    /\ ret.op = "add_subscriptions"
    /\ ret.arg # {}
    /\ ret.res = <<"Err", "ClientNotRegistered">>
    /\ data[ret.id] = None
    /\ \E v \in Ids : data[v] # None

\* C9: add_subscriptions(u, S) on a cached id with tickers C leaves C \cup S
\* in the record, and a second add_subscriptions(u, S) right after leaves
\* the subscriptions of the record as they are.
C9_AddIsUnion ==
    [][\A u \in Ids :
        (CalledOn("add_subscriptions", u) /\ data[u] # None)
        => /\ ret'.res = <<"Ok", "unit">>
           /\ data'[u] # None
           /\ TickersOf(Meta(data', u).subscriptions)
                 = TickersOf(Meta(data, u).subscriptions) \cup ret'.arg
           /\ (ret.op = "add_subscriptions" /\ ret.id = u /\ ret.arg = ret'.arg
                 /\ ret.res[1] = "Ok")
                 => Meta(data', u).subscriptions = Meta(data, u).subscriptions
    ]_vars

\* an add_subscriptions has extended a set that held another ticker
C9_Witness ==
    /\ ret.op = "add_subscriptions"
    /\ ret.res[1] = "Ok"
    /\ ret.arg # {}
    /\ TickersOf(Meta(data, ret.id).subscriptions) = Tickers
    /\ ret.arg # Tickers

\* C10: remove_subscriptions(u, S) on a cached id with tickers C returns Ok
\* and leaves C \ S in the record; when no ticker of S is in C (also when
\* the record has no subscriptions) the tickers of the record are the same,
\* and so is the subscriptions field unless it was a present empty set.
C10_RemoveIsDifference ==
    [][\A u \in Ids :
        (CalledOn("remove_subscriptions", u) /\ data[u] # None)
        => /\ ret'.res = <<"Ok", "unit">>
           /\ data'[u] # None
           /\ TickersOf(Meta(data', u).subscriptions)
                 = TickersOf(Meta(data, u).subscriptions) \ ret'.arg
           /\ (ret'.arg \cap TickersOf(Meta(data, u).subscriptions) = {})
                 => /\ TickersOf(Meta(data', u).subscriptions)
                          = TickersOf(Meta(data, u).subscriptions)
                    /\ Meta(data, u).subscriptions # {{}}
                          => Meta(data', u).subscriptions
                                = Meta(data, u).subscriptions
    ]_vars

\* a remove_subscriptions of a ticker that is not subscribed has returned Ok
\* on a record that keeps its ticker
C10_Witness ==
    /\ ret.op = "remove_subscriptions"
    /\ ret.res = <<"Ok", "unit">>
    /\ ret.arg # {}
    /\ Meta(data, ret.id).subscriptions # {}
    /\ TickersOf(Meta(data, ret.id).subscriptions) # {}
    /\ ret.notify = "dropped"

\* C11: a remove_subscriptions(u, S) call on a record whose every ticker is in
\* S leaves the subscriptions field of the record absent (never a present
\* empty set), and a subscriptions(u) call made next returns Ok(None).
C11_EmptyingCollapses ==
    [][\A u \in Ids :
          /\ ( /\ CalledOn("remove_subscriptions", u)
               /\ data[u] # None
               /\ TickersOf(Meta(data, u).subscriptions) \subseteq ret'.arg )
             => /\ Meta(data', u).subscriptions = None
                /\ ret'.res = <<"Ok", "unit">>
          /\ ( /\ CalledOn("subscriptions", u)
               /\ ret.op = "remove_subscriptions"
               /\ ret.id = u
               /\ ret.notify # "none"
               /\ data[u] # None
               /\ Meta(data, u).subscriptions = None )
             => ret'.res = <<"Ok", None>>
          /\ ( /\ CalledOn("subscriptions", u)
               /\ data[u] # None )
             => ret'.res = <<"Ok", Meta(data, u).subscriptions>>]_vars

\* a read that returned Ok(None) right after the removal of the last ticker
C11_Witness ==
    /\ ret.op = "subscriptions"
    /\ ret.id = 1
    /\ ret.res = <<"Ok", None>>
    /\ db[1] # None
    /\ Row(db, 1).subscriptions = Some(<<"A">>)
    /\ data[1] # None
    /\ Meta(data, 1).subscriptions = None

\* the three operations that edit a cached record
Mutators == {"add_subscriptions", "remove_subscriptions", "modify_access_level"}

\* C12: every add_subscriptions, remove_subscriptions and modify_access_level
\* call that returns Ok on a cached id u while the channel has free capacity
\* adds exactly one update:<u> message to the channel, also an
\* add_subscriptions on a record that already has subscriptions.
C12_EveryMutationNotifies ==
    [][\A u \in Ids : \A op \in Mutators :
          ( /\ CalledOn(op, u)
            /\ data[u] # None
            /\ ret'.res[1] = "Ok"
            /\ Len(chan) < ChanCap )
          => chan' = Append(chan, MsgUpdate(u))]_vars

\* C13: a notifying call made while the channel is full still returns its
\* normal result and keeps its change of the cache; its message is dropped:
\* the channel is left as it was and no error is returned. A full channel
\* never disables such a call.
C13_NotifyBestEffort ==
    [][\A u \in Ids :
            /\ (Len(chan) = ChanCap /\ data[u] # None /\ nops < MaxOps)
               => /\ \A a \in BotAccess : ENABLED modify_access_level(u, a)
                  /\ \A t \in SubArgs : ENABLED add_subscriptions(u, t)
                  /\ \A t \in SubArgs : ENABLED remove_subscriptions(u, t)
            /\ ( /\ CalledOn("modify_access_level", u)
                 /\ data[u] # None
                 /\ Len(chan) = ChanCap )
               => /\ chan' = chan
                  /\ ret'.res = <<"Ok", "unit">>
                  /\ ret'.notify = "dropped"
                  /\ Meta(data', u).access_level = ret'.arg
            /\ ( /\ CalledOn("add_subscriptions", u)
                 /\ data[u] # None
                 /\ Len(chan) = ChanCap )
               => /\ chan' = chan
                  /\ ret'.res = <<"Ok", "unit">>
                  /\ TickersOf(Meta(data', u).subscriptions)
                        = TickersOf(Meta(data, u).subscriptions) \cup ret'.arg
            /\ ( /\ CalledOn("remove_subscriptions", u)
                 /\ data[u] # None
                 /\ Len(chan) = ChanCap )
               => /\ chan' = chan
                  /\ ret'.res = <<"Ok", "unit">>
                  /\ TickersOf(Meta(data', u).subscriptions)
                        = TickersOf(Meta(data, u).subscriptions) \ ret'.arg
            /\ ( /\ CalledOn("is_registered", u)
                 /\ data[u] = None
                 /\ ret'.dbw = "insert"
                 /\ Len(chan) = ChanCap )
               => /\ chan' = chan
                  /\ ret'.res = <<"Ok", FALSE>>
                  /\ data'[u] = Some(DefaultMeta)]_vars

\* a modify_access_level that found the channel full has returned Ok, its
\* message is not in the channel and the record holds the new tier
C13_Witness ==
    /\ ret.op = "modify_access_level"
    /\ ret.notify = "dropped"
    /\ ret.res = <<"Ok", "unit">>
    /\ ret.arg = "Admin"
    /\ Len(chan) = ChanCap
    /\ pc = "idle"
    /\ Meta(data, ret.id).access_level = "Admin"

\* C14: access_level, subscriptions, add_subscriptions, remove_subscriptions
\* and modify_access_level never change the store; of the calls of the
\* handler only is_registered on an id that is not cached and register_client
\* on an id that is not yet registered do.
C14_HandlerStoreWrites ==
    [][\A u \in Ids :
          /\ \A op \in Mutators \cup {"access_level", "subscriptions"} :
                CalledOn(op, u) => db' = db
          /\ (CalledOn("is_registered", u) /\ data[u] # None) => db' = db
          /\ ( /\ CalledOn("register_client", u)
               /\ data[u] # None
               /\ Meta(data, u).registered ) => db' = db
          /\ ( /\ \E op \in {"is_registered", "register_client"} : CalledOn(op, u)
               /\ db' # db )
             => /\ \A v \in Ids \ {u} : db'[v] = db[v]
                /\ data[u] = None \/ ~Meta(data, u).registered]_vars

\* a modify_access_level has changed the tier of a record whose row still
\* holds the tier it had
C14_Witness ==
    /\ ret.op = "modify_access_level"
    /\ ret.res = <<"Ok", "unit">>
    /\ ret.arg # "Free"
    /\ db[ret.id] # None
    /\ Row(db, ret.id).access = to_string("Free")
    /\ Meta(data, ret.id).access_level = ret.arg
    /\ ret.notify = "sent"

\* a turn of process_queue or save_cache
MaintenanceTurn == nops' = nops /\ pc \in {"flush", "save"}

\* C15 as stated: every change of the store is made by the maintenance task
\* (a turn of its flush or of its Save) and by no other component.
C15_SingleWriter == [][db' # db => MaintenanceTurn]_vars

\* C15: the store has two writers. The handler inserts the row of a new
\* client (is_registered, register_client) and sets the registered flag of an
\* existing row (register_client); every other change is an UPDATE of an
\* existing row made by a turn of the flush or the Save of the maintenance
\* task, which never inserts or deletes a row.
C15_StoreWriters ==
    [][db' # db =>
         \/ /\ MaintenanceTurn
            /\ \A v \in Ids : (db[v] = None) <=> (db'[v] = None)
         \/ \E u \in Ids :
               /\ CalledOn("is_registered", u)
               /\ db[u] = None
               /\ db' = [db EXCEPT ![u] = db'[u]]
               /\ db'[u] # None
               /\ ~Row(db', u).registered
         \/ \E u \in Ids :
               /\ CalledOn("register_client", u)
               /\ db' = [db EXCEPT ![u] = db'[u]]
               /\ db'[u] # None
               /\ Row(db', u).registered
               /\ db[u] # None
                    => Row(db', u) = [Row(db, u) EXCEPT !.registered = TRUE]
      ]_vars

\* a row inserted by register_client has been updated by the flush of the
\* maintenance task
C15_Witness ==
    \E u \in Ids :
        /\ db[u] # None
        /\ Row(db, u).registered
        /\ Row(db, u).access = to_string("Admin")
        /\ pc = "recv"
        /\ update_queue = <<>>

\* the first token of a message split at ':'
VerbOf(msg) == Split(msg, ":")[1]

C17_Parsing ==
    ret.op = "from" =>
        LET verb == VerbOf(ret.arg)
            rest == SubSeq(ret.arg, Len(verb) + 2, Len(ret.arg))
            parsed == ret.res[2]
        IN  /\ verb = MsgPing => parsed.cmd = "Ping"
            /\ verb = VerbUpdate
                 => parsed.cmd = "Update" /\ parsed.payload = rest
            /\ verb = MsgSave => parsed.cmd = "Save"
            /\ verb = MsgLoad => parsed.cmd = "Load"
            /\ verb \notin {MsgPing, VerbUpdate, MsgSave, MsgLoad}
                 => parsed.cmd = "Stop"

\* the task is in its loop: waiting for a message or flushing for a ping
InLoop(p, c) == p = "recv" \/ (p = "flush" /\ c = "recv")

RowEqualsRecord(table, d, u) ==
    /\ table[u] # None
    /\ d[u] # None
    /\ LET read == MetaOfRow(Row(table, u))
       IN  /\ read[1] = "Ok"
           /\ read[2].registered = Meta(d, u).registered
           /\ read[2].access_level = Meta(d, u).access_level
           /\ read[2].subscriptions = Meta(d, u).subscriptions

\* C19: when the Save that a Stop started ends with Ok the task has ended,
\* takes no message queued after the Stop, and at that moment the row of
\* every id of the key list equals the cache record of the id on registered,
\* access_level and subscriptions, whether its notifications were dropped or
\* not.
C19_StopFinalSave ==
    [][/\ ( /\ pc = "save"
            /\ cont = "stop"
            /\ nops' = nops
            /\ pc' = "done" )
          => /\ result' = <<"Ok", "unit">>
             /\ \A u \in Range(clients') : RowEqualsRecord(db', data', u)
       /\ (pc = "done" /\ ret'.op # "build")
          => pc' = "done" /\ (chan' = chan \/ Len(chan') = Len(chan) + 1)
      ]_vars

\* the task takes the message at the head of the channel
TakesMessage == pc = "recv" /\ nops' = nops /\ chan # <<>> /\ chan' = Tail(chan)

WrittenFrom(table, d, u) ==
    /\ table[u] # None
    /\ d[u] # None
    /\ Row(table, u).registered = Meta(d, u).registered
    /\ Row(table, u).access = to_string(Meta(d, u).access_level)
    /\ Row(table, u).created_at = Meta(d, u).created_at
    /\ Row(table, u).last_access = Meta(d, u).last_update
    /\ IF Meta(d, u).subscriptions = None
       THEN Row(table, u).subscriptions = None
       ELSE /\ Row(table, u).subscriptions # None
            /\ Unwrap(Row(table, u).subscriptions)
                  \in SubToStrings(Unwrap(Meta(d, u).subscriptions))

\* a turn of process_queue run by the task
FlushTurn == pc = "flush" /\ nops' = nops

\* C21: a run of process_queue takes the whole queue and leaves it empty;
\* each of its turns writes the record that the cache holds at that moment
\* for the id at the head of the taken list, touches no other row and drops
\* that id from the list, so that distinct ids are written once each; an
\* update message sent while the run lasts stays in the channel: the run
\* neither takes it nor adds its id to the list it works on.
C21_QueueDrain ==
    [][/\ (TakesMessage /\ pc' = "flush")
          => /\ work' = update_queue
             /\ update_queue' = <<>>
       /\ FlushTurn
          => /\ update_queue = <<>>
             /\ update_queue' = <<>>
             /\ chan' = chan
             /\ \A v \in Ids \ {Head(work)} : db'[v] = db[v]
             /\ pc' \in {"flush", "recv"}
                  => /\ WrittenFrom(db', data, Head(work))
                     /\ pc' = "flush" => work' = Tail(work) /\ work' # <<>>
                     /\ pc' = "recv"
                          => Tail(work) = <<>> /\ result' = <<"Ok", "unit">>
       /\ (pc = "flush" /\ nops' # nops /\ ret'.op # "build")
          => /\ work' = work
             /\ update_queue' = update_queue
             /\ pc' = "flush"
             /\ chan' = chan \/ (Len(chan') = Len(chan) + 1
                                  /\ SubSeq(chan', 1, Len(chan)) = chan)
      ]_vars

\* the notification of a change made while the flush was running waits in
\* the channel after the flush, which wrote the changed record once
C21_Witness ==
    /\ pc = "recv"
    /\ result = <<"Ok", "unit">>
    /\ update_queue = <<>>
    /\ chan = <<MsgUpdate(1)>>
    /\ ret.op = "modify_access_level"
    /\ ret.id = 1
    /\ ret.arg = "Admin"
    /\ WrittenFrom(db, data, 1)
    /\ Row(db, 1).access = to_string("Admin")

\* C22: a turn of process_queue that finds no cache record for the id at the
\* head of its list ends the run with CacheIncongruence: it writes nothing,
\* drops the ids that follow, and the task leaves its loop with that error;
\* the task writes nothing afterwards.
C22_MissingRecordIsFatal ==
    [][/\ (FlushTurn /\ data[Head(work)] = None)
          => /\ pc' = "failed"
             /\ result' = <<"Err", "CacheIncongruence">>
             /\ db' = db
             /\ work' = <<>>
             /\ update_queue' = update_queue
       /\ (pc = "failed" /\ ret'.op # "build")
          => /\ pc' = "failed"
             /\ result' = result
             /\ db' # db => nops' = nops + 1
      ]_vars

\* the flush of a batch in which a cached id followed an id with no record
\* has ended with CacheIncongruence, the row of the cached id not written
C22_Witness ==
    /\ pc = "failed"
    /\ result = <<"Err", "CacheIncongruence">>
    /\ ret.op = "send"
    /\ ret.arg = MsgPing
    /\ nops = 3
    /\ chan = <<>>
    /\ update_queue = <<>>
    /\ data[1] = None
    /\ data[2] # None
    /\ db[2] # None
    /\ Row(db, 2).last_access = None

\* a turn of save_cache
SaveTurn == pc = "save" /\ nops' = nops

\* C23: save_cache works through the whole key list, which does not change
\* meanwhile; each turn overwrites the row of the listed id with the cache
\* record read in that turn and touches no other row, so that a Save that
\* returns Ok has written every listed id; a turn that finds no cache
\* record for its id ends the Save with CacheIncongruence, writes nothing
\* and drops the ids that follow.
C23_SaveWritesAll ==
    [][/\ (pc # "save" /\ pc' = "save") => (work' = clients /\ locked')
       /\ pc = "save" => clients' = clients
       /\ SaveTurn
          => /\ \A v \in Ids \ {Head(work)} : db'[v] = db[v]
             /\ data[Head(work)] = None
                  => /\ result' = <<"Err", "CacheIncongruence">>
                     /\ pc' # "save"
                     /\ db' = db
                     /\ work' = <<>>
             /\ pc' = "save"
                  => /\ WrittenFrom(db', data, Head(work))
                     /\ work' = Tail(work)
             /\ (pc' # "save" /\ result' = <<"Ok", "unit">>)
                  => /\ WrittenFrom(db', data, Head(work))
                     /\ Tail(work) = <<>>
      ]_vars

\* a Save has ended with CacheIncongruence at the first listed id, which
\* has no record; the row of the id listed after it was not written
C23_Witness ==
    /\ pc = "idle"
    /\ ret.op = "save_cache"
    /\ result = <<"Err", "CacheIncongruence">>
    /\ clients = <<1, 2>>
    /\ data[1] = None
    /\ data[2] # None
    /\ db[2] # None
    /\ Row(db, 2).last_access = None

RECURSIVE SaveAll(_, _, _)
\* the tables a whole pass of save_cache over list may leave (one per order
\* in which to_string may yield the tickers); none when a listed id has no
\* record
SaveAll(table, d, list) ==
    IF list = <<>> THEN {table}
    ELSE IF d[Head(list)] = None THEN {}
    ELSE UNION {SaveAll(update_db_entry(table, Head(list),
                                        Unwrap(d[Head(list)]), str),
                        d, Tail(list)) :
                  str \in SubTexts(Unwrap(d[Head(list)]))}

\* the map a whole pass of load_cache over table fills in a fresh cache
LoadAll(table) ==
    [u \in Ids |->
        IF table[u] = None THEN None
        ELSE LET meta == MetaOfRow(Unwrap(table[u]))
             IN  IF meta[1] = "Ok" THEN Some(meta[2]) ELSE None]

\* impl PartialEq for ClientMeta
MetaEq(a, b) ==
    /\ a.registered = b.registered
    /\ a.access_level = b.access_level
    /\ a.subscriptions = b.subscriptions
    /\ a.created_at = b.created_at

\* C24: for a cache that knows every row of the table and is not being
\* saved or loaded, a Save followed by a Load into a fresh cache gives a
\* cache with the same ids whose records equal the saved ones on registered,
\* access_level, subscriptions and created_at.
C24_SaveLoadSymmetry ==
    (pc = "idle" /\ \A u \in Ids : db[u] # None => data[u] # None)
    => \A t \in SaveAll(db, data, clients) :
          \A u \in Ids :
             /\ (LoadAll(t)[u] # None) <=> (data[u] # None)
             /\ data[u] # None
                  => MetaEq(Unwrap(LoadAll(t)[u]), Unwrap(data[u]))

\* a turn of load_cache
LoadTurn == pc = "load" /\ nops' = nops

\* the record m equals the row r on registered, access_level and
\* subscriptions
RecordOfRow(m, r) ==
    /\ m.registered = r.registered
    /\ to_string(m.access_level) = r.access
    /\ IF r.subscriptions = None
       THEN m.subscriptions = None
       ELSE m.subscriptions = Some(Range(Split(Unwrap(r.subscriptions), ";")))

\* C25: load_cache fetches every row of the table; each of its turns
\* appends the id of its row to the key list and, when the row converts,
\* puts a record equal to the row on registered, access_level and
\* subscriptions in the map, whatever record the map held for that id, and
\* leaves the other records alone; a Load that returns Ok has done so for
\* every fetched row.
C25_LoadOverwrites ==
    [][/\ (pc # "load" /\ pc' = "load")
          => /\ {work'[i].id : i \in 1..Len(work')} = {u \in Ids : db[u] # None}
             /\ \A i \in 1..Len(work') : work'[i].row = Row(db, work'[i].id)
             /\ \A i, j \in 1..Len(work') : work'[i].id = work'[j].id => i = j
       /\ LoadTurn
          => /\ clients' = Append(clients, Head(work).id)
             /\ \A v \in Ids \ {Head(work).id} : data'[v] = data[v]
             /\ pc' = "load"
                  => /\ work' = Tail(work)
                     /\ data'[Head(work).id] # None
                     /\ RecordOfRow(Meta(data', Head(work).id), Head(work).row)
             /\ (pc' # "load" /\ result' = <<"Ok", "unit">>)
                  => /\ Tail(work) = <<>>
                     /\ data'[Head(work).id] # None
                     /\ RecordOfRow(Meta(data', Head(work).id), Head(work).row)
      ]_vars

\* a second Load has put the tier of the row back in a record whose tier a
\* modify_access_level had changed, and has listed the id once more
C25_Witness ==
    /\ pc = "idle"
    /\ ret.op = "load_cache"
    /\ ret.id = 1
    /\ result = <<"Ok", "unit">>
    /\ nops = 3
    /\ chan = <<MsgUpdate(1)>>
    /\ clients = <<1, 1>>
    /\ db[1] = Some(SeedRow)
    /\ data[1] # None
    /\ Meta(data, 1).access_level = "Limited"

\* how many times the id u is in the key list
Listed(list, u) == Cardinality({i \in DOMAIN list : list[i] = u})

\* C26: whenever no Load is running, every id that has a record in the map
\* is in the key list exactly once.
C26_KeyListLockStep ==
    pc # "load" => \A u \in Ids : data[u] # None => Listed(clients, u) = 1

\* the two calls in flight have returned and were calls of ops on the id u
BothDone(fl, ops, u) ==
    \A c \in Callers :
        fl[c].at = "done" /\ fl[c].op \in ops /\ fl[c].id = u

\* C27: when two callers each make a registration call (is_registered or
\* register_client) on the same id that was unknown at the start (every id
\* but client 1) and both calls have returned, exactly one of them ran the
\* INSERT, neither failed, and the map holds a record for the id.
C27_RegistrationsAtomic ==
    \A u \in Ids \ {1} :
        BothDone(inflight, {"is_registered", "register_client"}, u)
        => /\ Cardinality({c \in Callers : inflight[c].dbw # "none"}) = 1
           /\ \A c \in Callers : inflight[c].res[1] = "Ok"
           /\ data[u] # None

\* the tickers the record of u was loaded with
StartTickers(u) == TickersOf(MetaOfRow(Row(db, u))[2].subscriptions)

\* C28: the changes two callers make to the subscriptions of one cached id
\* are serialized: while one caller holds the guard of the record no step
\* changes the record; when both calls have returned, two adds leave the
\* union of the start set and both arguments, and an add and a remove leave
\* what one of the two sequential orders leaves; a step of a call on
\* another id never changes the record.
C28_SubscriptionsSerialized ==
    [][\A u \in Ids :
         /\ (\E c \in Callers : inflight[c].id = u
                                /\ inflight[c].at \in {"mark", "notify_held"})
              => data'[u] = data[u]
         /\ (\E c \in Callers : inflight'[c] # inflight[c] /\ inflight'[c].id # u)
              => data'[u] = data[u]
         /\ ( /\ BothDone(inflight', {"add_subscriptions", "remove_subscriptions"}, u)
              /\ data'[u] # None )
              => LET C == StartTickers(u)
                     F == TickersOf(Meta(data', u).subscriptions)
                     adds == {c \in Callers : inflight'[c].op = "add_subscriptions"}
                     A == UNION {inflight'[c].arg : c \in adds}
                     R == UNION {inflight'[c].arg : c \in Callers \ adds}
                 IN  /\ adds = Callers => F = C \cup A
                     /\ adds = {} => F = C \ R
                     /\ Cardinality(adds) = 1
                          => F \in {(C \cup A) \ R, (C \ R) \cup A}
      ]_vars

\* an add and a remove of the same ticker on a record loaded with no
\* subscriptions have both returned Ok; the remove ran first, so the ticker
\* is subscribed
C28_Witness ==
    /\ BothDone(inflight, {"add_subscriptions", "remove_subscriptions"}, 1)
    /\ inflight[1].op = "add_subscriptions"
    /\ inflight[2].op = "remove_subscriptions"
    /\ inflight[1].arg = {<<"A">>}
    /\ inflight[2].arg = {<<"A">>}
    /\ \A c \in Callers : inflight[c].res = <<"Ok", "unit">>
    /\ StartTickers(1) = {}
    /\ Meta(data, 1).subscriptions = Some({<<"A">>})
    /\ chan = <<MsgUpdate(1)>>

\* the texts that impl Display for BotAccess writes
AccessTexts == {to_string(a) : a \in BotAccess}

\* C29: every tier is written as one of free, limited, unlimited and admin
\* and that text parses back to the tier; and a turn of load_cache on a row
\* whose access text is none of the four (its subscriptions text being
\* well-formed) does not end the Load with an error: it puts a record with
\* the tier Free in the map.
C29_AccessTextAndFallback ==
    [][/\ AccessTexts = {"free", "limited", "unlimited", "admin"}
       /\ \A a \in BotAccess : from_str(to_string(a)) = <<"Ok", a>>
       /\ ( /\ LoadTurn
            /\ Head(work).row.access \notin AccessTexts
            /\ \/ Head(work).row.subscriptions = None
               \/ SubTryFrom(Unwrap(Head(work).row.subscriptions))[1] = "Ok" )
          => /\ pc' = "load" \/ result' = <<"Ok", "unit">>
             /\ data'[Head(work).id] # None
             /\ Meta(data', Head(work).id).access_level = "Free"
      ]_vars

\* the tokens of the input of the last conversion
TokensOfCall ==
    IF ret.op = "try_from_str" THEN Split(ret.arg, ";") ELSE ret.arg

\* C30: building a Subscription Set from a text delimited by ';' or from a
\* list of tokens fails with WrongSubscriptionString, building nothing, when
\* a token has more than 4 characters; when every token has at most 4
\* characters it succeeds with the set of the tokens, duplicates collapsed.
C30_FormatRejection ==
    ret.op \in {"try_from_str", "try_from_slice"} =>
        IF \E i \in 1..Len(TokensOfCall) : Len(TokensOfCall[i]) > 4
        THEN ret.res = <<"Err", "WrongSubscriptionString">>
        ELSE ret.res = <<"Ok", Range(TokensOfCall)>>

\* C31: for every set S of tokens of at most 4 characters, the empty set
\* included, parsing the text to_string wrote for S gives a Subscription Set
\* equal to S.
C31_ParseRoundTrip ==
    ret.op = "try_from_to_string" => ret.res = <<"Ok", ret.arg.set>>

\* work is what is left of the list list
Suffix(list, left) ==
    /\ Len(left) <= Len(list)
    /\ left = SubSeq(list, Len(list) - Len(left) + 1, Len(list))

\* C32: from the moment save_cache takes the lock of the key list until it
\* returns, the lock is held and no step appends to the key list: a caller
\* of is_registered or register_client that has reached its push stays
\* there, no turn of load_cache runs, and what Save has left to iterate is
\* the rest of the unchanged list.
C32_SaveHoldsKeyListLock ==
    [][pc = "save" =>
          /\ locked
          /\ Suffix(clients, work)
          /\ clients' = clients
          /\ \A c \in Callers :
                inflight[c].at = "push" => inflight'[c].at = "push"
      ]_vars

\* a Save is running while a caller waits at its push
C32_Witness ==
    /\ pc = "save"
    /\ \E c \in Callers : inflight[c].at = "push"

\* C33: the empty subscription set is kept as absence: no record of the
\* cache holds a Subscriptions value that is present and empty, and no row
\* of the table holds the empty text in its subscriptions column.
C33_EmptyIsAbsent ==
    \A u \in Ids :
        /\ data[u] # None => Meta(data, u).subscriptions # Some({})
        /\ db[u] # None => Row(db, u).subscriptions # Some(<<>>)

Parties == Callers \cup {0}

\* the party has a call, a Save, a flush or a Load under way
Busy(p) ==
    IF p \in Callers THEN inflight[p].at \notin {"idle", "done"}
    ELSE pc \in {"save", "flush", "load"}

\* C35: the engine does not deadlock: every handler call and every Save,
\* flush and Load that is under way eventually completes, whatever the other
\* parties do (a caller at its push of the key list holds no guard of the
\* map, Save looks up the map only under the lock of the key list, and a
\* notification under a guard does not wait for room in the channel).
C35_DeadlockFree == \A p \in Parties : Busy(p) ~> ~Busy(p)

\* Save, holding the lock of the key list, waits for a record whose guard a
\* caller holds while it notifies on a full channel
C35_Witness ==
    /\ pc = "save"
    /\ Len(chan) = ChanCap
    /\ \E c \in Callers :
          inflight[c].at = "notify_held" /\ inflight[c].id = Head(work)

\* C36: hard registration is monotonic: no step of a handler operation, of
\* Save, of Load or of the processing of Ping and Update takes the answer
\* of is_registered(u) from true back to false, that is, a record whose
\* registered flag is set (the row of the store agreeing) keeps it set as
\* long as the cache holds the record.
C36_RegisteredMonotonic ==
    [][\A u \in Ids :
          ( /\ data[u] # None /\ Meta(data, u).registered
            /\ db[u] # None /\ Row(db, u).registered
            /\ data'[u] # None )
          => Meta(data', u).registered
      ]_vars

\* C37: a registration call that fails leaves the cache as it was: when
\* is_registered(u) or register_client(u) returns an error, the map and the
\* key list are what they were before the call.
C37_FailedRegistrationNoTrace ==
    [][\A u \in Ids :
          ( /\ CalledOn("is_registered", u) \/ CalledOn("register_client", u)
            /\ ret'.res[1] = "Err" )
          => data' = data /\ clients' = clients
      ]_vars

C39_CreatedAtPreserved ==
    \A u \in Ids : db[u] # None => Row(db, u).created_at # None

\* C40: an update message whose payload is missing or is not the decimal
\* form of an id does not crash the task: taking it, the task does not
\* abort and enqueues nothing; it goes on receiving or ends through the
\* Stop path, with the final Save.
C40_MalformedUpdateNoCrash ==
    [][(TakesMessage /\ Head(chan) \in MalformedUpdates)
          => /\ pc' # "panicked"
             /\ update_queue' = update_queue
             /\ \/ pc' = "recv"
                \/ pc' = "save" /\ cont' = "stop"
                \/ pc' = "done" /\ clients = <<>>
      ]_vars
====
